---- MODULE Spec2Model ----
(***************************************************************************)
(* Playback controller of src/components/TabRenderer.tsx: the two playback *)
(* flags, the cursor, the refs that hold the synth session, and the parts  *)
(* of the platform the handlers talk to (the HTMLAudioElement of the       *)
(* original recording, the AudioContext with its oscillators and clock,    *)
(* and the requestAnimationFrame queue).                                   *)
(*                                                                         *)
(* Times are integers in ticks of 1/TicksPerSecond second.  A handler is   *)
(* an operator from a state record to a state record, so that the calls a  *)
(* handler makes compose in the order the code makes them; every handler   *)
(* appends the platform calls it makes to `trace`.                         *)
(***************************************************************************)
EXTENDS Integers, Sequences, FiniteSets, TLC

\* ---------------------------------------------------------------- bounds
MaxClock == 850
MaxPlayCalls == 2
AudioLen == 2
MaxContexts == 2

\* ------------------------------------------------------ program constants
TicksPerSecond == 200
DefaultTempo == 120
Lookahead == (2 * TicksPerSecond) \div 10
NoteStopAfter == (5 * TicksPerSecond) \div 10
ClickStopAfter == (6 * TicksPerSecond) \div 100
PositionsPerMeasure == 16
BeatsPerMeasure == 4
NULL == -1
NaN == -2

ClockSteps == {45, 400}

\* ------------------------------------------------------------ input data
\* The renderer is given sanitized transcriptions: strings in 1..6, positions
\* in 0..15, textual frets, the notes of a measure in ascending position.
\* tempo 0 and tuning "" stand for an absent tempo and an absent tuning.
Note(s, f, p) == [string |-> s, fret |-> f, position |-> p]

PieceTwoSections ==
  [tempo |-> 120, tuning |-> "E Standard",
   sections |-> << << <<Note(1, "0", 0)>> >>, << <<Note(1, "0", 0)>> >> >>]

PieceOneMeasure ==
  [tempo |-> 0, tuning |-> "",
   sections |-> << << <<Note(2, "x", 0), Note(1, "12", 4), Note(6, "3", 8)>> >> >>]

PieceEmpty ==
  [tempo |-> 120, tuning |-> "Open C", sections |-> << >>]

\* Three measures in two sections, the middle one without notes; notes that
\* share a position, and a fret text that does not parse.
PieceTies ==
  [tempo |-> 100, tuning |-> "Drop D",
   sections |->
     << << <<Note(2, "3", 4), Note(3, "x", 4), Note(1, "0", 12), Note(4, "7h", 15)>>,
           << >> >>,
        << <<Note(5, "0", 0), Note(6, "12", 15)>> >> >>]

Pieces == {PieceTwoSections, PieceOneMeasure, PieceEmpty, PieceTies}

VARIABLES
  data, hasAudio, mounted, metronomeEnabled,
  isPlayingOriginal, isPlayingSynth,
  activeSectionIdx, activeMeasureIdx, activePosIdx,
  synthContextRef, synthOscillators, synthTimeoutRefs,
  animationFrameRef, synthStartTimeRef,
  audioPaused, audioPos, playPending, abortQueue,
  oscLive, frames, now, openContexts,
  trace, lastCmd, pre,
  probe, app

vars == << data, hasAudio, mounted, metronomeEnabled,
           isPlayingOriginal, isPlayingSynth,
           activeSectionIdx, activeMeasureIdx, activePosIdx,
           synthContextRef, synthOscillators, synthTimeoutRefs,
           animationFrameRef, synthStartTimeRef,
           audioPaused, audioPos, playPending, abortQueue,
           oscLive, frames, now, openContexts,
           trace, lastCmd, pre, probe, app >>

\* The part of the state the handlers read and write, as one record.
Cur ==
  [isPlayingOriginal |-> isPlayingOriginal,
   isPlayingSynth |-> isPlayingSynth,
   activeSectionIdx |-> activeSectionIdx,
   activeMeasureIdx |-> activeMeasureIdx,
   activePosIdx |-> activePosIdx,
   synthContextRef |-> synthContextRef,
   synthOscillators |-> synthOscillators,
   synthTimeoutRefs |-> synthTimeoutRefs,
   animationFrameRef |-> animationFrameRef,
   synthStartTimeRef |-> synthStartTimeRef,
   audioPaused |-> audioPaused,
   audioPos |-> audioPos,
   playPending |-> playPending,
   abortQueue |-> abortQueue,
   oscLive |-> oscLive,
   frames |-> frames,
   now |-> now,
   openContexts |-> openContexts,
   trace |-> << >>]

Install(s) ==
  /\ isPlayingOriginal' = s.isPlayingOriginal
  /\ isPlayingSynth' = s.isPlayingSynth
  /\ activeSectionIdx' = s.activeSectionIdx
  /\ activeMeasureIdx' = s.activeMeasureIdx
  /\ activePosIdx' = s.activePosIdx
  /\ synthContextRef' = s.synthContextRef
  /\ synthOscillators' = s.synthOscillators
  /\ synthTimeoutRefs' = s.synthTimeoutRefs
  /\ animationFrameRef' = s.animationFrameRef
  /\ synthStartTimeRef' = s.synthStartTimeRef
  /\ audioPaused' = s.audioPaused
  /\ audioPos' = s.audioPos
  /\ playPending' = s.playPending
  /\ abortQueue' = s.abortQueue
  /\ oscLive' = s.oscLive
  /\ frames' = s.frames
  /\ now' = s.now
  /\ openContexts' = s.openContexts
  /\ trace' = s.trace

NoPre == [none |-> TRUE]

\* `probe` holds the input and the result of a function that is applied on
\* its own (the sanitizer, the time computations); the component leaves it
\* alone.
NoProbe == [kind |-> "none"]

\* `app` is the state of the App component that shows the renderer: its
\* useState values, the recorder, the calls it is waiting for, and `last`,
\* the handler that ran last.
NoResult == [present |-> FALSE, raw |-> [none |-> TRUE], sections |-> << >>]
NoLast == [op |-> "none", outcome |-> "none", prevResult |-> NoResult, prevState |-> "IDLE"]
AppStart ==
  [state |-> "IDLE", result |-> NoResult, audioUrl |-> 0, errorDetails |-> "null",
   micPending |-> FALSE, recorder |-> "inactive",
   requests |-> {}, calls |-> 0, last |-> NoLast]

\* A platform call, recorded with what the platform was doing when it was made.
Log(s, op) ==
  [s EXCEPT !.trace = Append(@, [op |-> op,
                                 live |-> Cardinality({h \in s.oscLive : s.now < h.stopAt}),
                                 frame |-> s.frames # {},
                                 paused |-> s.audioPaused])]

\* ------------------------------------------------------------- time grid
Tempo == IF data.tempo = 0 THEN DefaultTempo ELSE data.tempo
SecondsPerBeat == (60 * TicksPerSecond) \div Tempo
SecondsPerMeasure == (60 * TicksPerSecond * BeatsPerMeasure) \div Tempo
SecondsPerPosition == SecondsPerMeasure \div PositionsPerMeasure

\* ------------------------------------------------- the transcription data
RECURSIVE AllMeasures(_)
AllMeasures(secs) ==
  IF secs = << >> THEN << >> ELSE Head(secs) \o AllMeasures(Tail(secs))

\* sections.flatMap((section, sIdx) => section.measures.map((measure, mIdx) =>
\*   ({...measure, sectionIdx: sIdx, measureIdx: mIdx, absoluteIdx: 0})))
RECURSIVE FlatFrom(_, _)
FlatFrom(secs, sIdx) ==
  IF secs = << >> THEN << >>
  ELSE [mIdx \in 1..Len(Head(secs)) |->
          [notes |-> Head(secs)[mIdx],
           sectionIdx |-> sIdx, measureIdx |-> mIdx - 1, absoluteIdx |-> 0]]
       \o FlatFrom(Tail(secs), sIdx + 1)

\* flatMeasures without the second map: absoluteIdx keeps its placeholder.
flatMeasuresOf_Placeholder(sections) == FlatFrom(sections, 0)

\* The useMemo body of lines 39-48: the flatMap, then
\* .map((m, i) => ({...m, absoluteIdx: i})).
flatMeasuresOf(sections) ==
  LET f == FlatFrom(sections, 0)
  IN [i \in 1..Len(f) |-> [f[i] EXCEPT !.absoluteIdx = i - 1]]

flatMeasures == flatMeasuresOf(data.sections)

\* TUNING_FREQS: open-string frequencies, string 6 to string 1, in hundredths
\* of a hertz.
TUNING_FREQS ==
  [name \in {"E Standard", "Drop D", "D Standard", "Open G", "DADGAD"} |->
     CASE name = "E Standard" -> << 8241, 11000, 14683, 19600, 24694, 32963 >>
       [] name = "Drop D" -> << 7342, 11000, 14683, 19600, 24694, 32963 >>
       [] name = "D Standard" -> << 7342, 9800, 13081, 17461, 22000, 29366 >>
       [] name = "Open G" -> << 7342, 9800, 14683, 19600, 24694, 29366 >>
       [] name = "DADGAD" -> << 7342, 11000, 14683, 19600, 22000, 29366 >>]

\* TUNING_FREQS is an object literal: besides its own five keys, a lookup
\* finds the members it inherits from Object.prototype, which are functions.
ObjectPrototypeKeys == {"constructor", "toString", "valueOf", "hasOwnProperty"}

\* TUNING_FREQS[name]
TuningLookup(name) ==
  CASE name \in DOMAIN TUNING_FREQS -> [t |-> "array", items |-> TUNING_FREQS[name]]
    [] name \in ObjectPrototypeKeys -> [t |-> "function", items |-> << >>]
    [] OTHER -> [t |-> "undefined", items |-> << >>]

\* TUNING_FREQS[tuning || 'E Standard'] || TUNING_FREQS['E Standard']
tuningTable(tuning) ==
  LET name == IF tuning = "" THEN "E Standard" ELSE tuning
      found == TuningLookup(name)
  IN IF found.t = "undefined" THEN TuningLookup("E Standard") ELSE found

tuningBaseFreqs == tuningTable(data.tuning)

\* table[stringIdx]: an element of the array, or undefined (NaN once it is
\* multiplied) when the table is not an array or has no such index.
BaseFreq(table, stringIdx) ==
  IF table.t = "array" /\ stringIdx + 1 \in DOMAIN table.items
  THEN table.items[stringIdx + 1] ELSE NaN

ClickAccentFreq == 120000
ClickFreq == 80000

\* parseInt of the fret texts the pieces use: leading digits, else NaN.
ParseInt(fret) ==
  CASE fret = "0" -> 0
    [] fret = "3" -> 3
    [] fret = "12" -> 12
    [] fret = "7h" -> 7
    [] OTHER -> NaN

RECURSIVE InsertNote(_, _)
InsertNote(n, sorted) ==
  IF sorted = << >> THEN << n >>
  ELSE IF n.position <= Head(sorted).position THEN << n >> \o sorted
  ELSE << Head(sorted) >> \o InsertNote(n, Tail(sorted))

\* [...measure.notes].sort((a, b) => a.position - b.position), a stable sort.
RECURSIVE SortedNotes(_)
SortedNotes(ns) ==
  IF ns = << >> THEN << >> ELSE InsertNote(Head(ns), SortedNotes(Tail(ns)))

\* --------------------------------------------------------- platform calls
\* HTMLMediaElement.pause(): the pending play() promises are taken and their
\* rejection (AbortError) is queued as a task.
AudioPause(s) ==
  LET t == Log(s, "pause")
  IN IF s.audioPaused THEN t
     ELSE [t EXCEPT !.audioPaused = TRUE,
                    !.abortQueue = @ + s.playPending,
                    !.playPending = 0]

\* audio.currentTime = 0
AudioSeekStart(s) == [Log(s, "seek0") EXCEPT !.audioPos = 0]

\* HTMLMediaElement.play(): returns a promise that stays pending until the
\* element has data to play; an ended element restarts from the beginning.
AudioPlay(s) ==
  [Log(s, "play") EXCEPT !.audioPaused = FALSE,
                         !.playPending = @ + 1,
                         !.audioPos = IF @ = AudioLen THEN 0 ELSE @]

\* osc.stop() on every handle of the ref array, in order.
RECURSIVE StopEach(_, _)
StopEach(s, oscs) ==
  IF oscs = << >> THEN s
  ELSE StopEach([Log(s, "oscStop") EXCEPT !.oscLive = @ \ {Head(oscs)}], Tail(oscs))

\* new AudioContext(): one more context is open.  Nothing in the component
\* calls close() on a context, so the count never goes down.
NewContext(s) == [Log(s, "newContext") EXCEPT !.openContexts = @ + 1]

CancelFrame(s, id) ==
  [Log(s, "cancelFrame") EXCEPT !.frames = {f \in @ : f.id # id}]

\* requestAnimationFrame(updatePlaybackProgress): the callback registered is
\* the closure of the render that registers it, which holds that render's
\* value of isPlayingSynth.  Ids are never reused while still referenced.
RequestFrame(s, closureIsPlayingSynth) ==
  LET used == {f.id : f \in s.frames} \cup {s.animationFrameRef}
      id == CHOOSE i \in 1..(Cardinality(used) + 1) :
              i \notin used /\ \A j \in 1..(i - 1) : j \in used
  IN [Log(s, "requestFrame") EXCEPT
        !.frames = @ \cup {[id |-> id, isPlayingSynth |-> closureIsPlayingSynth]},
        !.animationFrameRef = id]

\* ctx.createOscillator(); osc.start(t); osc.stop(t + d); synthOscillators.push(osc)
\* The frequency set on the oscillator is freq * 2^(semitones / 12).
PushOsc(s, kind, freq, semitones, start, stopAt) ==
  LET h == [id |-> Len(s.synthOscillators) + 1, kind |-> kind,
            freq |-> freq, semitones |-> semitones,
            start |-> start, stopAt |-> stopAt]
  IN [Log(s, "oscStart") EXCEPT !.oscLive = @ \cup {h},
                                !.synthOscillators = Append(@, h)]

\* ------------------------------------------------------------- handlers
\* stopAllPlayback without the cancelAnimationFrame call.
stopAllPlayback_KeepsFrame(s) ==
  LET s1 == IF hasAudio THEN AudioSeekStart(AudioPause(s)) ELSE s
      s2 == [s1 EXCEPT !.isPlayingOriginal = FALSE]
      s3 == [StopEach(s2, s2.synthOscillators) EXCEPT !.synthOscillators = << >>]
      s4 == [s3 EXCEPT !.synthTimeoutRefs = << >>]
  IN [s4 EXCEPT !.isPlayingSynth = FALSE,
                !.activeMeasureIdx = NULL,
                !.activePosIdx = NULL,
                !.activeSectionIdx = NULL]

\* stopAllPlayback without setIsPlayingSynth(false).
stopAllPlayback_KeepsSynthFlag(s) ==
  LET s1 == IF hasAudio THEN AudioSeekStart(AudioPause(s)) ELSE s
      s2 == [s1 EXCEPT !.isPlayingOriginal = FALSE]
      s3 == [StopEach(s2, s2.synthOscillators) EXCEPT !.synthOscillators = << >>]
      s4 == [s3 EXCEPT !.synthTimeoutRefs = << >>]
      s5 == IF s4.animationFrameRef # 0
            THEN CancelFrame(s4, s4.animationFrameRef) ELSE s4
  IN [s5 EXCEPT !.activeMeasureIdx = NULL,
                !.activePosIdx = NULL,
                !.activeSectionIdx = NULL]

\* stopAllPlayback without the three cursor setters of lines 111-113.
stopAllPlayback_KeepsCursor(s) ==
  LET s1 == IF hasAudio THEN AudioSeekStart(AudioPause(s)) ELSE s
      s2 == [s1 EXCEPT !.isPlayingOriginal = FALSE]
      s3 == [StopEach(s2, s2.synthOscillators) EXCEPT !.synthOscillators = << >>]
      s4 == [s3 EXCEPT !.synthTimeoutRefs = << >>]
      s5 == IF s4.animationFrameRef # 0
            THEN CancelFrame(s4, s4.animationFrameRef) ELSE s4
  IN [s5 EXCEPT !.isPlayingSynth = FALSE]

\* stopAllPlayback without `synthOscillators.current = []`.
stopAllPlayback_KeepsHandles(s) ==
  LET s1 == IF hasAudio THEN AudioSeekStart(AudioPause(s)) ELSE s
      s2 == [s1 EXCEPT !.isPlayingOriginal = FALSE]
      s3 == StopEach(s2, s2.synthOscillators)
      s4 == [s3 EXCEPT !.synthTimeoutRefs = << >>]
      s5 == IF s4.animationFrameRef # 0
            THEN CancelFrame(s4, s4.animationFrameRef) ELSE s4
  IN [s5 EXCEPT !.isPlayingSynth = FALSE,
                !.activeMeasureIdx = NULL,
                !.activePosIdx = NULL,
                !.activeSectionIdx = NULL]

stopAllPlayback(s) ==
  LET s1 == IF hasAudio THEN AudioSeekStart(AudioPause(s)) ELSE s
      s2 == [s1 EXCEPT !.isPlayingOriginal = FALSE]
      s3 == [StopEach(s2, s2.synthOscillators) EXCEPT !.synthOscillators = << >>]
      s4 == [s3 EXCEPT !.synthTimeoutRefs = << >>]
      s5 == IF s4.animationFrameRef # 0
            THEN CancelFrame(s4, s4.animationFrameRef) ELSE s4
  IN [s5 EXCEPT !.isPlayingSynth = FALSE,
                !.activeMeasureIdx = NULL,
                !.activePosIdx = NULL,
                !.activeSectionIdx = NULL]

\* ScheduleClick with every beat at the pitch of the unaccented click.
ScheduleClick_NoAccent(s, measureStartTime, beat) ==
  LET clickTime == measureStartTime + beat * SecondsPerBeat
  IN PushOsc(s, "click", ClickFreq, 0, clickTime, clickTime + ClickStopAfter)

\* ScheduleClick with the beats of a measure laid out from its end.
ScheduleClick_CountsDown(s, measureStartTime, beat) ==
  LET clickTime == measureStartTime + (BeatsPerMeasure - 1 - beat) * SecondsPerBeat
  IN PushOsc(s, "click", IF beat = 0 THEN ClickAccentFreq ELSE ClickFreq, 0,
             clickTime, clickTime + ClickStopAfter)

\* The body of the metronome loop (lines 190-207): one click.
ScheduleClick(s, measureStartTime, beat) ==
  LET clickTime == measureStartTime + beat * SecondsPerBeat
  IN PushOsc(s, "click", IF beat = 0 THEN ClickAccentFreq ELSE ClickFreq, 0,
             clickTime, clickTime + ClickStopAfter)

RECURSIVE ScheduleClicks(_, _, _)
ScheduleClicks(s, measureStartTime, beat) ==
  IF beat >= BeatsPerMeasure THEN s
  ELSE ScheduleClicks(ScheduleClick(s, measureStartTime, beat), measureStartTime, beat + 1)

\* ScheduleNote sounding the open string when the fret does not parse.
ScheduleNote_PlaysUnparsed(s, note, measureStartTime) ==
  LET fretNum == ParseInt(note.fret)
      stringIdx == 6 - note.string
      baseFreq == BaseFreq(tuningBaseFreqs, stringIdx)
      noteStartTime == measureStartTime + note.position * SecondsPerPosition
  IN PushOsc(s, "note", baseFreq, IF fretNum = NaN THEN 0 ELSE fretNum,
             noteStartTime, noteStartTime + NoteStopAfter)

\* The body of the note loop (lines 212-236): one note; a fret that does not
\* parse returns from the callback (line 214) and the loop goes on.
ScheduleNote(s, note, measureStartTime) ==
  LET fretNum == ParseInt(note.fret)
      stringIdx == 6 - note.string
      baseFreq == BaseFreq(tuningBaseFreqs, stringIdx)
      noteStartTime == measureStartTime + note.position * SecondsPerPosition
  IN IF fretNum = NaN THEN s
     ELSE PushOsc(s, "note", baseFreq, fretNum,
                  noteStartTime, noteStartTime + NoteStopAfter)

RECURSIVE ScheduleNotes(_, _, _)
ScheduleNotes(s, notes, measureStartTime) ==
  IF notes = << >> THEN s
  ELSE ScheduleNotes(ScheduleNote(s, Head(notes), measureStartTime),
                     Tail(notes), measureStartTime)

RECURSIVE ScheduleMeasures(_, _, _)
ScheduleMeasures(s, measures, measureStartTime) ==
  IF measures = << >> THEN s
  ELSE LET s1 == IF metronomeEnabled
                 THEN ScheduleClicks(s, measureStartTime, 0) ELSE s
           s2 == ScheduleNotes(s1, SortedNotes(Head(measures)), measureStartTime)
       IN ScheduleMeasures(s2, Tail(measures), measureStartTime + SecondsPerMeasure)

\* updatePlaybackProgress counting beats where it should count positions.
updatePlaybackProgress_CountsBeats(s, closureIsPlayingSynth) ==
  IF ~s.synthContextRef \/ ~closureIsPlayingSynth THEN s
  ELSE LET elapsed == s.now - s.synthStartTimeRef
       IN IF elapsed < 0 THEN RequestFrame(s, closureIsPlayingSynth)
          ELSE LET totalPositions == elapsed \div SecondsPerBeat
                   absMeasureIdx == totalPositions \div PositionsPerMeasure
                   posInMeasure == totalPositions % PositionsPerMeasure
               IN IF absMeasureIdx < Len(flatMeasures)
                  THEN RequestFrame(
                         [s EXCEPT !.activeSectionIdx = flatMeasures[absMeasureIdx + 1].sectionIdx,
                                   !.activeMeasureIdx = flatMeasures[absMeasureIdx + 1].measureIdx,
                                   !.activePosIdx = posInMeasure],
                         closureIsPlayingSynth)
                  ELSE stopAllPlayback(s)

\* The frame callback; closureIsPlayingSynth is the isPlayingSynth of the
\* render whose updatePlaybackProgress was registered.
updatePlaybackProgress(s, closureIsPlayingSynth) ==
  IF ~s.synthContextRef \/ ~closureIsPlayingSynth THEN s
  ELSE LET elapsed == s.now - s.synthStartTimeRef
       IN IF elapsed < 0 THEN RequestFrame(s, closureIsPlayingSynth)
          ELSE LET totalPositions == elapsed \div SecondsPerPosition
                   absMeasureIdx == totalPositions \div PositionsPerMeasure
                   posInMeasure == totalPositions % PositionsPerMeasure
               IN IF absMeasureIdx < Len(flatMeasures)
                  THEN RequestFrame(
                         [s EXCEPT !.activeSectionIdx = flatMeasures[absMeasureIdx + 1].sectionIdx,
                                   !.activeMeasureIdx = flatMeasures[absMeasureIdx + 1].measureIdx,
                                   !.activePosIdx = posInMeasure],
                         closureIsPlayingSynth)
                  ELSE stopAllPlayback(s)

\* toggleOriginalPlayback without the teardown of a running synth session.
toggleOriginalPlayback_NoTeardown(s) ==
  IF ~hasAudio THEN s
  ELSE IF s.isPlayingOriginal
       THEN [AudioPause(s) EXCEPT !.isPlayingOriginal = FALSE]
       ELSE [AudioPlay(s) EXCEPT !.isPlayingOriginal = TRUE]

toggleOriginalPlayback(s) ==
  LET s1 == IF s.isPlayingSynth THEN stopAllPlayback(s) ELSE s
  IN IF ~hasAudio THEN s1
     ELSE IF s.isPlayingOriginal
          THEN [AudioPause(s1) EXCEPT !.isPlayingOriginal = FALSE]
          ELSE [AudioPlay(s1) EXCEPT !.isPlayingOriginal = TRUE]

\* playSynth without the stop of a playing original recording.
playSynth_KeepsOriginal(s) ==
  IF s.isPlayingSynth THEN stopAllPlayback(s)
  ELSE LET s2 == [NewContext(s) EXCEPT !.synthContextRef = TRUE,
                                              !.now = 0,
                                              !.isPlayingSynth = TRUE]
           startTime == s2.now + Lookahead
           s3 == [s2 EXCEPT !.synthStartTimeRef = startTime]
           s4 == ScheduleMeasures(s3, AllMeasures(data.sections), startTime)
       IN RequestFrame(s4, s.isPlayingSynth)

\* playSynth scheduling from the current clock value, without the lookahead.
playSynth_NoLookahead(s) ==
  LET s1 == IF s.isPlayingOriginal THEN stopAllPlayback(s) ELSE s
  IN IF s.isPlayingSynth THEN stopAllPlayback(s1)
     ELSE LET s2 == [NewContext(s1) EXCEPT !.synthContextRef = TRUE,
                                                  !.now = 0,
                                                  !.isPlayingSynth = TRUE]
              startTime == s2.now
              s3 == [s2 EXCEPT !.synthStartTimeRef = startTime]
              s4 == ScheduleMeasures(s3, AllMeasures(data.sections), startTime)
          IN RequestFrame(s4, s.isPlayingSynth)

playSynth(s) ==
  LET s1 == IF s.isPlayingOriginal THEN stopAllPlayback(s) ELSE s
  IN IF s.isPlayingSynth THEN stopAllPlayback(s1)
     ELSE LET s2 == [NewContext(s1) EXCEPT !.synthContextRef = TRUE,
                                                  !.now = 0,
                                                  !.isPlayingSynth = TRUE]
              startTime == s2.now + Lookahead
              s3 == [s2 EXCEPT !.synthStartTimeRef = startTime]
              s4 == ScheduleMeasures(s3, AllMeasures(data.sections), startTime)
          IN RequestFrame(s4, s.isPlayingSynth)

\* The cleanup of the audio effect alone, without the stopAllPlayback of the
\* second effect's cleanup.
unmountCleanup_AudioOnly(s) ==
  IF hasAudio THEN [AudioPause(s) EXCEPT !.audioPos = 0] ELSE s

\* The cleanups of the two effects, run at unmount in declaration order.
unmountCleanup(s) ==
  LET s1 == IF hasAudio THEN [AudioPause(s) EXCEPT !.audioPos = 0] ELSE s
  IN stopAllPlayback(s1)

\* --------------------------------------------------------------- Init
MountState ==
  [isPlayingOriginal |-> FALSE,
   isPlayingSynth |-> FALSE,
   activeSectionIdx |-> NULL,
   activeMeasureIdx |-> NULL,
   activePosIdx |-> NULL,
   synthContextRef |-> FALSE,
   synthOscillators |-> << >>,
   synthTimeoutRefs |-> << >>,
   animationFrameRef |-> 0,
   synthStartTimeRef |-> 0,
   audioPaused |-> TRUE,
   audioPos |-> 0,
   playPending |-> 0,
   abortQueue |-> 0,
   oscLive |-> {},
   frames |-> {},
   now |-> 0,
   openContexts |-> 0,
   trace |-> << >>]

Init ==
  /\ data \in Pieces
  /\ hasAudio \in BOOLEAN
  /\ mounted = TRUE
  /\ metronomeEnabled = FALSE
  /\ isPlayingOriginal = FALSE
  /\ isPlayingSynth = FALSE
  /\ activeSectionIdx = NULL
  /\ activeMeasureIdx = NULL
  /\ activePosIdx = NULL
  /\ synthContextRef = FALSE
  /\ synthOscillators = << >>
  /\ synthTimeoutRefs = << >>
  /\ animationFrameRef = 0
  /\ synthStartTimeRef = 0
  /\ audioPaused = TRUE
  /\ audioPos = 0
  /\ playPending = 0
  /\ abortQueue = 0
  /\ oscLive = {}
  /\ frames = {}
  /\ now = 0
  /\ openContexts = 0
  /\ trace = << >>
  /\ lastCmd = "mount"
  /\ pre = NoPre
  /\ probe = NoProbe
  /\ app = AppStart

\* -------------------------------------------------------------- actions
Fixed == UNCHANGED << data, hasAudio, mounted, metronomeEnabled, probe, app >>

ToggleOriginal ==
  /\ mounted
  /\ playPending + abortQueue < MaxPlayCalls
  /\ Install(toggleOriginalPlayback(Cur))
  /\ lastCmd' = "toggleOriginalPlayback"
  /\ pre' = Cur
  /\ Fixed

PlaySynth ==
  /\ mounted
  /\ isPlayingSynth \/ openContexts < MaxContexts
  /\ Install(playSynth(Cur))
  /\ lastCmd' = "playSynth"
  /\ pre' = Cur
  /\ Fixed

ToggleMetronome ==
  /\ mounted
  /\ metronomeEnabled' = ~metronomeEnabled
  /\ Install(Cur)
  /\ lastCmd' = "toggleMetronome"
  /\ pre' = NoPre
  /\ UNCHANGED << data, hasAudio, mounted, probe, app >>

\* A registered frame callback runs.
Frame ==
  /\ \E f \in frames :
       Install(updatePlaybackProgress([Cur EXCEPT !.frames = @ \ {f}], f.isPlayingSynth))
  /\ lastCmd' = "updatePlaybackProgress"
  /\ pre' = Cur
  /\ Fixed

\* The audio clock of the session's context advances.  The clock is only
\* read during a session (line 122), so it is only advanced during one; a new
\* context starts its clock at 0.
Tick ==
  /\ synthContextRef
  /\ isPlayingSynth
  /\ \E d \in ClockSteps :
       /\ now + d <= MaxClock
       /\ Install([Cur EXCEPT !.now = @ + d])
  /\ lastCmd' = "tick"
  /\ pre' = NoPre
  /\ Fixed

\* The element has data: the pending play() promises resolve (no handler).
\* The element's tasks run in the order they were queued, so a rejection
\* queued by an earlier pause() is delivered first.
PlayResolved ==
  /\ playPending > 0
  /\ abortQueue = 0
  /\ ~audioPaused
  /\ Install([Cur EXCEPT !.playPending = 0])
  /\ lastCmd' = "playResolved"
  /\ pre' = NoPre
  /\ Fixed

\* PlayRejected with a catch handler that only logs.
PlayRejected_NoReset ==
  /\ playPending > 0
  /\ abortQueue = 0
  /\ Install([Cur EXCEPT !.playPending = 0, !.audioPaused = TRUE])
  /\ lastCmd' = "playRejected"
  /\ pre' = NoPre
  /\ Fixed

\* The platform refuses or fails to start playback: the pending promises are
\* rejected and the catch handler of toggleOriginalPlayback runs.
PlayRejected ==
  /\ playPending > 0
  /\ abortQueue = 0
  /\ Install([Cur EXCEPT !.playPending = 0,
                         !.audioPaused = TRUE,
                         !.isPlayingOriginal = FALSE])
  /\ lastCmd' = "playRejected"
  /\ pre' = NoPre
  /\ Fixed

\* The rejection task queued by an earlier pause() runs the catch handler.
AbortDelivered ==
  /\ abortQueue > 0
  /\ Install([Cur EXCEPT !.abortQueue = @ - 1,
                         !.isPlayingOriginal = FALSE])
  /\ lastCmd' = "playRejected"
  /\ pre' = NoPre
  /\ Fixed

Audible == hasAudio /\ ~audioPaused /\ playPending = 0 /\ audioPos < AudioLen

AudioAdvance ==
  /\ Audible
  /\ Install([Cur EXCEPT !.audioPos = @ + 1])
  /\ lastCmd' = "audioAdvance"
  /\ pre' = NoPre
  /\ Fixed

\* audio.onended
AudioEnded ==
  /\ hasAudio /\ ~audioPaused /\ playPending = 0 /\ audioPos = AudioLen
  /\ abortQueue = 0
  /\ Install([Cur EXCEPT !.audioPaused = TRUE, !.isPlayingOriginal = FALSE])
  /\ lastCmd' = "onended"
  /\ pre' = NoPre
  /\ Fixed

\* audio.onerror: the element stops; pending play() promises are rejected too.
AudioError ==
  /\ hasAudio /\ ~audioPaused
  /\ abortQueue = 0
  /\ Install([Cur EXCEPT !.audioPaused = TRUE,
                         !.playPending = 0,
                         !.isPlayingOriginal = FALSE])
  /\ lastCmd' = "onerror"
  /\ pre' = NoPre
  /\ Fixed

Unmount ==
  /\ mounted
  /\ mounted' = FALSE
  /\ Install(unmountCleanup(Cur))
  /\ lastCmd' = "unmount"
  /\ pre' = Cur
  /\ UNCHANGED << data, hasAudio, metronomeEnabled, probe, app >>

Mount ==
  /\ ~mounted
  /\ mounted' = TRUE
  /\ data' \in Pieces
  /\ hasAudio' \in BOOLEAN
  /\ metronomeEnabled' = FALSE
  /\ Install([MountState EXCEPT !.openContexts = openContexts])
  /\ lastCmd' = "mount"
  /\ pre' = NoPre
  /\ UNCHANGED << probe, app >>

Next ==
  \/ ToggleOriginal
  \/ PlaySynth
  \/ ToggleMetronome
  \/ Frame
  \/ Tick
  \/ PlayResolved
  \/ PlayRejected
  \/ AbortDelivered
  \/ AudioAdvance
  \/ AudioEnded
  \/ AudioError
  \/ Unmount
  \/ Mount

Spec == Init /\ [][Next]_vars

TypeOK ==
  /\ isPlayingOriginal \in BOOLEAN
  /\ isPlayingSynth \in BOOLEAN
  /\ now \in 0..MaxClock
  /\ audioPos \in 0..AudioLen

\* Fairness the platform gives: a registered frame callback is run, and the
\* audio clock of a playing session keeps advancing.
LiveSpec == Init /\ [][Next]_vars /\ WF_vars(Frame) /\ WF_vars(Tick)

\* The state variables hold the record s.
Holds(s) ==
  /\ isPlayingOriginal = s.isPlayingOriginal
  /\ isPlayingSynth = s.isPlayingSynth
  /\ activeSectionIdx = s.activeSectionIdx
  /\ activeMeasureIdx = s.activeMeasureIdx
  /\ activePosIdx = s.activePosIdx
  /\ synthContextRef = s.synthContextRef
  /\ synthOscillators = s.synthOscillators
  /\ synthTimeoutRefs = s.synthTimeoutRefs
  /\ animationFrameRef = s.animationFrameRef
  /\ synthStartTimeRef = s.synthStartTimeRef
  /\ audioPaused = s.audioPaused
  /\ audioPos = s.audioPos
  /\ playPending = s.playPending
  /\ abortQueue = s.abortQueue
  /\ oscLive = s.oscLive
  /\ frames = s.frames
  /\ now = s.now
  /\ openContexts = s.openContexts
  /\ trace = s.trace

\* The polling step applied on its own: a synth session at any clock value
\* whose pending frame callback sees isPlayingSynth = true, so that the step
\* gets past its guard (line 117) to the computation of lines 119-141.
PollInit ==
  /\ data \in Pieces
  /\ hasAudio = FALSE
  /\ mounted = TRUE
  /\ metronomeEnabled = FALSE
  /\ \E s0 \in {playSynth(MountState)}, t \in 0..MaxClock :
       \E s1 \in {[s0 EXCEPT !.frames = {[id |-> f.id, isPlayingSynth |-> TRUE] : f \in @},
                              !.now = t,
                              !.trace = << >>]} :
         Holds(s1)
  /\ lastCmd = "playSynth"
  /\ pre = NoPre
  /\ probe = NoProbe
  /\ app = AppStart

PollNext ==
  \/ Frame
  \/ Tick

PollSpec == PollInit /\ [][PollNext]_vars

\* ------------------------------------------------------------ vocabulary
NoTrace(s) == [s EXCEPT !.trace = << >>]

IsIdle(s) == ~s.isPlayingOriginal /\ ~s.isPlayingSynth

CursorNull(s) ==
  /\ s.activeSectionIdx = NULL
  /\ s.activeMeasureIdx = NULL
  /\ s.activePosIdx = NULL

\* Handles of the scheduled set that no stop (forced or scheduled) has ended.
Unstopped(s) == {h \in s.oscLive : s.now < h.stopAt}

SessionEnd(s) == s.synthStartTimeRef + Len(flatMeasures) * SecondsPerMeasure

OpsAt(ops) == {i \in 1..Len(trace) : trace[i].op \in ops}

\* -------------------------------------------------------------------- C1
\* C1: isPlayingOriginal and isPlayingSynth are never both true.
C1_MutualExclusion == ~(isPlayingOriginal /\ isPlayingSynth)

C1_Witness ==
  /\ lastCmd = "playSynth"
  /\ pre.isPlayingOriginal
  /\ isPlayingSynth

\* -------------------------------------------------------------------- C2
\* C2: the original recording is never playing while a synth sound handle
\* scheduled by playSynth has not been stopped.
C2_NeverBothAudible == ~(Audible /\ Unstopped(Cur) # {})

\* -------------------------------------------------------------------- C3
\* C3: playSynth invoked while original playback is active pauses and resets
\* the original audio before it schedules the first sound; and
\* toggleOriginalPlayback invoked while synth playback is active stops every
\* scheduled handle and cancels the polling loop before it calls play().
C3_SwitchOrder ==
  /\ (lastCmd = "playSynth" /\ pre.isPlayingOriginal) =>
       \A i \in OpsAt({"oscStart"}) :
         /\ trace[i].paused
         /\ \E j \in OpsAt({"pause"}) : j < i
         /\ \E j \in OpsAt({"seek0"}) : j < i
  /\ (lastCmd = "toggleOriginalPlayback" /\ pre.isPlayingSynth) =>
       \A i \in OpsAt({"play"}) :
         /\ trace[i].live = 0
         /\ ~trace[i].frame
         /\ Cardinality({j \in OpsAt({"oscStop"}) : j < i}) = Len(pre.synthOscillators)

C3_Witness ==
  /\ lastCmd = "toggleOriginalPlayback"
  /\ pre.isPlayingSynth
  /\ Unstopped(pre) # {}
  /\ pre.frames # {}
  /\ OpsAt({"play"}) # {}

\* -------------------------------------------------------------------- C4
\* C4: playSynth invoked while isPlayingSynth is true ends in Idle with every
\* handle of the set force-stopped, the handle set and the timer set empty,
\* no frame callback pending, the cursor null and no new sound scheduled.
C4_ExplicitStop ==
  (lastCmd = "playSynth" /\ pre.isPlayingSynth) =>
    /\ IsIdle(Cur)
    /\ \A i \in 1..Len(pre.synthOscillators) : pre.synthOscillators[i] \notin oscLive
    /\ synthOscillators = << >>
    /\ synthTimeoutRefs = << >>
    /\ frames = {}
    /\ CursorNull(Cur)
    /\ OpsAt({"oscStart"}) = {}

C4_Witness ==
  /\ lastCmd = "playSynth"
  /\ pre.isPlayingSynth
  /\ pre.frames # {}
  /\ \E i \in 1..Len(pre.synthOscillators) : pre.synthOscillators[i].start > pre.now
  /\ \E i \in 1..Len(pre.synthOscillators) : pre.synthOscillators[i].start <= pre.now
  /\ oscLive = {}

\* -------------------------------------------------------------------- C5
\* C5: once the audio clock of a synth session has passed
\* sessionStart + N * secondsPerMeasure, the session eventually ends (Idle).
C5_NaturalCompletion ==
  (isPlayingSynth /\ now >= SessionEnd(Cur)) ~> (~isPlayingSynth)

\* -------------------------------------------------------------------- C6
\* C6: a frame callback that runs during a synth session at elapsed >= 0 sets
\* the cursor to the measure and position of that instant, and ends the
\* session when the instant is past the last measure.
C6_CursorTracks ==
  (lastCmd = "updatePlaybackProgress" /\ pre.isPlayingSynth
     /\ pre.now >= pre.synthStartTimeRef) =>
    LET elapsed == pre.now - pre.synthStartTimeRef
        totalPositions == elapsed \div SecondsPerPosition
        absMeasureIdx == totalPositions \div PositionsPerMeasure
    IN IF absMeasureIdx < Len(flatMeasures)
       THEN /\ activeSectionIdx = flatMeasures[absMeasureIdx + 1].sectionIdx
            /\ activeMeasureIdx = flatMeasures[absMeasureIdx + 1].measureIdx
            /\ activePosIdx = totalPositions % PositionsPerMeasure
       ELSE ~isPlayingSynth

\* -------------------------------------------------------------------- C7
\* C7: from every state stopAllPlayback yields Idle, and a second call right
\* after the first yields the state the first one left.
C7_StopIdempotent ==
  LET s1 == NoTrace(stopAllPlayback(Cur))
      s2 == NoTrace(stopAllPlayback(s1))
  IN /\ IsIdle(s1)
     /\ CursorNull(s1)
     /\ s1.synthOscillators = << >>
     /\ s2 = s1

C7_Witness ==
  /\ lastCmd = "unmount"
  /\ pre.isPlayingSynth
  /\ Unstopped(pre) # {}
  /\ IsIdle(Cur)
  /\ NoTrace(stopAllPlayback(Cur)) = Cur

\* -------------------------------------------------------------------- C8
\* C8: stopAllPlayback run while both flags are false changes neither the
\* flags, the cursor, the handle set, the timer set, the polling
\* registration nor the playback position of the original recording.
PlaybackState(s) ==
  << s.isPlayingOriginal, s.isPlayingSynth,
     s.activeSectionIdx, s.activeMeasureIdx, s.activePosIdx,
     s.synthOscillators, s.oscLive, s.synthTimeoutRefs,
     s.frames, s.audioPos >>

C10_RejectionYieldsIdle ==
  lastCmd = "playRejected" => IsIdle(Cur)

\* C10 (amended): once a rejection of play() has been handled
\* isPlayingOriginal is false, whatever happened since the play() call.
C10_RejectionClearsOriginal ==
  lastCmd = "playRejected" => ~isPlayingOriginal

C10_Witness ==
  /\ lastCmd = "playRejected"
  /\ isPlayingSynth
  /\ ~isPlayingOriginal

\* ------------------------------------------------------------------- C11
\* C11: a polling step at elapsed >= 0 computes
\* totalPositions = floor(elapsed / secondsPerPosition),
\* absoluteMeasure = floor(totalPositions / 16) and
\* positionInMeasure = totalPositions mod 16; it reports Done (stops the
\* session) exactly when absoluteMeasure >= number of flattened measures, and
\* otherwise sets the cursor to flattened entry absoluteMeasure and to
\* positionInMeasure, which is in 0..15.
Polled ==
  /\ lastCmd = "updatePlaybackProgress"
  /\ pre.synthContextRef
  /\ pre.frames # {}
  /\ \A f \in pre.frames : f.isPlayingSynth

C12_NotStartedKeepsPolling ==
  (lastCmd = "updatePlaybackProgress" /\ pre.isPlayingSynth /\ pre.synthContextRef
     /\ pre.now < pre.synthStartTimeRef) =>
    /\ activeSectionIdx = pre.activeSectionIdx
    /\ activeMeasureIdx = pre.activeMeasureIdx
    /\ activePosIdx = pre.activePosIdx
    /\ isPlayingSynth
    /\ Cardinality(frames) = 1

\* ------------------------------------------------- scheduling vocabulary
\* The state right after a playSynth that started a session.
Scheduled == lastCmd = "playSynth" /\ ~pre.isPlayingSynth

Measures == AllMeasures(data.sections)

RECURSIVE Flatten(_)
Flatten(seqs) == IF seqs = << >> THEN << >> ELSE Head(seqs) \o Flatten(Tail(seqs))

IsParseable(n) == ParseInt(n.fret) # NaN
Parseable(notes) == SelectSeq(notes, IsParseable)

IsNoteHandle(h) == h.kind = "note"
IsClickHandle(h) == h.kind = "click"
NoteHandles == SelectSeq(synthOscillators, IsNoteHandle)
ClickHandles == SelectSeq(synthOscillators, IsClickHandle)

Starts(hs) == [i \in 1..Len(hs) |-> hs[i].start]
NonDecreasing(ts) == \A i \in 1..(Len(ts) - 1) : ts[i] <= ts[i + 1]

\* ------------------------------------------------------------------- C14
\* C14: sessionStart is the clock value at scheduling plus the 0.2 s
\* lookahead, and the notes with a parseable fret, taken measure by measure in
\* document order (k counted from 0 over all sections, empty measures
\* included), start at sessionStart + k*secondsPerMeasure +
\* position*secondsPerPosition.
C14_OnsetTimes ==
  Scheduled =>
    /\ synthStartTimeRef = now + Lookahead
    /\ Starts(NoteHandles) =
         Flatten([k \in 1..Len(Measures) |->
                    [i \in 1..Len(Parseable(Measures[k])) |->
                       synthStartTimeRef + (k - 1) * SecondsPerMeasure
                         + Parseable(Measures[k])[i].position * SecondsPerPosition]])

C14_Witness ==
  /\ Scheduled
  /\ Len(Measures) = 3
  /\ Measures[2] = << >>
  /\ \E i \in 1..Len(NoteHandles) :
       NoteHandles[i].start = now + Lookahead + 2 * SecondsPerMeasure + 15 * SecondsPerPosition

\* ------------------------------------------------------------------- C15
\* C15: a note whose fret does not parse gets no handle, and the handles of
\* the pass are exactly those of the same pass over the piece with the
\* unparseable notes removed.
C15_UnresolvableFret ==
  Scheduled =>
    /\ Len(NoteHandles) = Len(Parseable(Flatten(Measures)))
    /\ synthOscillators =
         ScheduleMeasures([Cur EXCEPT !.synthOscillators = << >>],
                          [k \in 1..Len(Measures) |-> Parseable(Measures[k])],
                          synthStartTimeRef).synthOscillators

C15_Witness ==
  /\ Scheduled
  /\ \E k \in 1..(Len(Measures) - 1) :
       /\ \E i \in 1..Len(Measures[k]) :
            /\ ~IsParseable(Measures[k][i])
            /\ \E j \in (i + 1)..Len(Measures[k]) : IsParseable(Measures[k][j])
       /\ \E m \in (k + 1)..Len(Measures) : Parseable(Measures[m]) # << >>
  /\ Len(NoteHandles) = 5

\* ------------------------------------------------------------------- C16
\* C16: with the metronome enabled every measure, empty ones included, gets
\* four clicks at measureStartTime + beat*secondsPerBeat, beat 0 at a higher
\* pitch than beats 1..3; with it disabled there is no click; the number of
\* handles is 4*measures*(enabled ? 1 : 0) + notes with a parseable fret.
C16_Metronome ==
  Scheduled =>
    /\ metronomeEnabled =>
         /\ Len(ClickHandles) = 4 * Len(Measures)
         /\ \A k \in 1..Len(Measures) : \A beat \in 0..3 :
              LET h == ClickHandles[4 * (k - 1) + beat + 1]
              IN /\ h.start = synthStartTimeRef + (k - 1) * SecondsPerMeasure
                                + beat * SecondsPerBeat
                 /\ beat # 0 => h.freq < ClickHandles[4 * (k - 1) + 1].freq
    /\ ~metronomeEnabled => ClickHandles = << >>
    /\ Len(synthOscillators) =
         4 * Len(Measures) * (IF metronomeEnabled THEN 1 ELSE 0)
           + Len(Parseable(Flatten(Measures)))

C16_Witness ==
  /\ Scheduled
  /\ metronomeEnabled
  /\ \E k \in 1..Len(Measures) : Measures[k] = << >>
  /\ Len(ClickHandles) = 12
  /\ Len(synthOscillators) = 17

\* ------------------------------------------------------------------- C17
\* C17 as stated: the handles of one scheduling pass are appended in
\* non-decreasing order of onset time, metronome enabled or not.
C17_EnqueueOrder ==
  Scheduled => NonDecreasing(Starts(synthOscillators))

\* C17, amended: the note handles of one scheduling pass are appended in
\* non-decreasing order of onset time and so are the click handles; the whole
\* sequence is non-decreasing when the metronome is disabled.
C17_EnqueueOrderPerKind ==
  Scheduled =>
    /\ NonDecreasing(Starts(NoteHandles))
    /\ NonDecreasing(Starts(ClickHandles))
    /\ ~metronomeEnabled => NonDecreasing(Starts(synthOscillators))

C17_Witness ==
  /\ Scheduled
  /\ metronomeEnabled
  /\ Len(NoteHandles) >= 2
  /\ \E i \in 1..(Len(synthOscillators) - 1) :
       /\ synthOscillators[i].kind = "click"
       /\ synthOscillators[i + 1].kind = "note"
       /\ synthOscillators[i + 1].start < synthOscillators[i].start

\* ------------------------------------------------ floating-point numbers
\* The times of playSynth and updatePlaybackProgress are JavaScript numbers:
\* binary floating point, every operation rounded to the nearest
\* representable value, ties to even.  The model keeps that arithmetic with a
\* significand of SignificandBits bits instead of 53; 9 is congruent to 53
\* modulo 4, the period of the binary expansions of 0.2, 0.6 and 0.15, so
\* these values round the same way as in the 53-bit format.  A number is held
\* as an integer count of units of 1 / FScale, the spacing of the format
\* between 1/8 and 1/4 (smaller values keep that spacing).
SignificandBits == 9

RECURSIVE Pow2(_)
Pow2(n) == IF n = 0 THEN 1 ELSE 2 * Pow2(n - 1)

FScale == Pow2(SignificandBits + 2)

\* The spacing, in units, of the format around the value n / d.
RECURSIVE Spacing(_, _, _)
Spacing(n, d, u) ==
  IF n * FScale < Pow2(SignificandBits) * u * d THEN u ELSE Spacing(n, d, 2 * u)

\* The representable number nearest to n / d (n >= 0, d > 0), ties to even.
RoundRat(n, d) ==
  LET u == Spacing(n, d, 1)
      q == (n * FScale) \div (u * d)
      r == (n * FScale) - q * (u * d)
      up == 2 * r > u * d \/ (2 * r = u * d /\ q % 2 = 1)
  IN (IF up THEN q + 1 ELSE q) * u

\* Rounding is symmetric: the number nearest to n / d for d > 0 and any n.
RoundSigned(n, d) == IF n >= 0 THEN RoundRat(n, d) ELSE 0 - RoundRat(0 - n, d)

FLit(n, d) == RoundRat(n, d)
FAdd(a, b) == RoundSigned(a + b, FScale)
FSub(a, b) == RoundSigned(a - b, FScale)
\* The product of a number and a small integer, which is held exactly.
FTimes(a, i) == RoundSigned(a * i, FScale)
\* a / b for b other than 0.
FDiv(a, b) == IF b > 0 THEN RoundSigned(a, b) ELSE RoundSigned(0 - a, 0 - b)
FInt(i) == RoundSigned(i, 1)
FFloor(a) == a \div FScale

\* The time grid as the code computes it (lines 119-121 and 175-178).
FSecondsPerBeat(tempo) == FDiv(FInt(60), FInt(tempo))
FSecondsPerMeasure(tempo) == FTimes(FDiv(FInt(60), FInt(tempo)), 4)
FSecondsPerPosition(tempo) == FDiv(FSecondsPerMeasure(tempo), FInt(16))

\* startTime = ctx.currentTime + 0.2 (line 181).
FStartTime(currentTime) == FAdd(currentTime, FLit(2, 10))

\* measureStartTime at measure k: startTime, then += secondsPerMeasure after
\* each measure (lines 183, 238).
RECURSIVE FMeasureStartTime(_, _, _)
FMeasureStartTime(tempo, startTime, k) ==
  IF k = 0 THEN startTime
  ELSE FAdd(FMeasureStartTime(tempo, startTime, k - 1), FSecondsPerMeasure(tempo))

\* noteStartTime = measureStartTime + position * secondsPerPosition (line 219).
FNoteStartTime(tempo, startTime, k, position) ==
  FAdd(FMeasureStartTime(tempo, startTime, k),
       FTimes(FSecondsPerPosition(tempo), position))

\* Lines 122 and 129-131 at clock value currentTime (elapsed >= 0).
FPoll(tempo, startTime, currentTime) ==
  LET elapsed == FSub(currentTime, startTime)
      totalPositions == FFloor(FDiv(elapsed, FSecondsPerPosition(tempo)))
  IN [absMeasureIdx |-> totalPositions \div PositionsPerMeasure,
      posInMeasure |-> totalPositions % PositionsPerMeasure]

\* Tempos of the transcriptions and measures of the piece that are probed.
OnsetTempos == {60, 100, 120}
MaxOnsetMeasure == 2

PlayerFixed ==
  UNCHANGED << data, hasAudio, mounted, metronomeEnabled,
               isPlayingOriginal, isPlayingSynth,
               activeSectionIdx, activeMeasureIdx, activePosIdx,
               synthContextRef, synthOscillators, synthTimeoutRefs,
               animationFrameRef, synthStartTimeRef,
               audioPaused, audioPos, playPending, abortQueue,
               oscLive, frames, now, openContexts, trace, lastCmd, pre, app >>

OnsetInit ==
  /\ Init
  /\ data = PieceEmpty
  /\ ~hasAudio

\* playSynth computes the onset of a note of measure k at position p; the
\* clock of the new context reads 0.
ScheduleOnset ==
  /\ probe.kind = "none"
  /\ \E tempo \in OnsetTempos, k \in 0..MaxOnsetMeasure, p \in 0..(PositionsPerMeasure - 1) :
       LET startTime == FStartTime(FInt(0))
       IN probe' = [kind |-> "onset", tempo |-> tempo, k |-> k, p |-> p,
                    startTime |-> startTime,
                    noteStartTime |-> FNoteStartTime(tempo, startTime, k, p),
                    absMeasureIdx |-> NULL, posInMeasure |-> NULL]
  /\ PlayerFixed

\* updatePlaybackProgress runs when the clock reads exactly that onset.
PollAtOnset ==
  /\ probe.kind = "onset"
  /\ LET r == FPoll(probe.tempo, probe.startTime, probe.noteStartTime)
     IN probe' = [probe EXCEPT !.kind = "polled",
                               !.absMeasureIdx = r.absMeasureIdx,
                               !.posInMeasure = r.posInMeasure]
  /\ PlayerFixed

OnsetNext ==
  \/ ScheduleOnset
  \/ PollAtOnset

OnsetSpec == OnsetInit /\ [][OnsetNext]_vars

\* ------------------------------------------------------------------- C13
\* C13: a polling step evaluated at the clock value equal to the scheduled
\* onset of a note of absolute measure k at position p computes
\* absoluteMeasure = k and positionInMeasure = p.
C13_OnsetCorrelation ==
  probe.kind = "polled" =>
    /\ probe.absMeasureIdx = probe.k
    /\ probe.posInMeasure = probe.p

\* ---------------------------------------------------------- the sanitizer
\* The notes of a measure as JSON.parse returns them (line 122): any JSON
\* value.  A field of a note object is a value [t, n, s]: t is the kind of the
\* value ("undefined" for a missing field), n a number in tenths, s a text.
\* A note that is an object carries its place in the input as the extra
\* field id, which the spread of line 141 keeps.
RawUndefined == [t |-> "undefined", n |-> 0, s |-> ""]
RawNull == [t |-> "null", n |-> 0, s |-> ""]
RawNumber(tenths) == [t |-> "number", n |-> tenths, s |-> ""]
RawString(text) == [t |-> "string", n |-> 0, s |-> text]

RawNote(string, position, fret) ==
  [isObject |-> TRUE, string |-> string, position |-> position, fret |-> fret]
RawNullNote ==
  [isObject |-> FALSE, string |-> RawUndefined, position |-> RawUndefined,
   fret |-> RawUndefined]

RawNotes ==
  { RawNote(RawNumber(76), RawNumber(40), RawString("3")),
    RawNote(RawNumber(-30), RawNumber(174), RawUndefined),
    RawNote(RawNumber(20), RawNumber(44), RawNumber(30)),
    RawNote(RawNumber(20), RawNumber(-10), RawString("3")),
    RawNote(RawNumber(20), RawNumber(-4), RawString("3")),
    RawNote(RawUndefined, RawNumber(40), RawString("3")),
    RawNote(RawString("2"), RawNumber(40), RawString("3")),
    RawNote(RawNumber(20), RawUndefined, RawString("3")),
    RawNote(RawNumber(20), RawNull, RawString("3")),
    RawNote(RawNumber(20), RawString("5"), RawNull),
    RawNote(RawNumber(20), RawString("abc"), RawString("3")),
    RawNote(RawNumber(25), RawNumber(0), RawString("")),
    RawNote(RawNumber(10), RawNumber(155), RawString("7h")),
    RawNullNote }

MaxNotes == 3

RawMeasures ==
  UNION {[1..len -> RawNotes] : len \in 0..MaxNotes}

\* ToNumber, the conversion that >= and Math.round apply to their operand.
ToNumber(v) ==
  CASE v.t = "number" -> [nan |-> FALSE, n |-> v.n]
    [] v.t = "null" -> [nan |-> FALSE, n |-> 0]
    [] v.t = "string" /\ v.s = "" -> [nan |-> FALSE, n |-> 0]
    [] v.t = "string" /\ v.s = "2" -> [nan |-> FALSE, n |-> 20]
    [] v.t = "string" /\ v.s = "5" -> [nan |-> FALSE, n |-> 50]
    [] OTHER -> [nan |-> TRUE, n |-> 0]

\* Math.round of a number in tenths: the nearest integer, halves upwards.
MathRound(tenths) ==
  IF tenths + 5 >= 0 THEN (tenths + 5) \div 10
  ELSE 0 - ((0 - (tenths + 5) + 9) \div 10)

MathMin(a, b) == IF a < b THEN a ELSE b
MathMax(a, b) == IF a > b THEN a ELSE b

\* note.fret?.toString() || '0'
FretText(v) ==
  CASE v.t = "undefined" -> "0"
    [] v.t = "null" -> "0"
    [] v.t = "string" -> IF v.s = "" THEN "0" ELSE v.s
    [] v.t = "number" /\ v.n = 30 -> "3"
    [] OTHER -> "0"

\* The filter of line 140: n && typeof n.string === 'number' && n.position >= 0
keepsNote(n) ==
  /\ n.isObject
  /\ n.string.t = "number"
  /\ ~ToNumber(n.position).nan
  /\ ToNumber(n.position).n >= 0

\* sanitizeNote without the clamping of string and position.
sanitizeNote_NoClamp(n) ==
  [string |-> MathRound(n.string.n),
   position |-> MathRound(ToNumber(n.position).n),
   fret |-> FretText(n.fret),
   id |-> n.id]

\* The map of lines 141-146.
sanitizeNote(n) ==
  [string |-> MathMin(MathMax(1, MathRound(n.string.n)), 6),
   position |-> MathMin(MathMax(0, MathRound(ToNumber(n.position).n)), 15),
   fret |-> FretText(n.fret),
   id |-> n.id]

WithIds(notes) ==
  [i \in 1..Len(notes) |->
     [isObject |-> notes[i].isObject, string |-> notes[i].string,
      position |-> notes[i].position, fret |-> notes[i].fret, id |-> i]]

\* sanitizeNotes without the final sort.
sanitizeNotes_Unsorted(notes) ==
  LET kept == SelectSeq(WithIds(notes), keepsNote)
  IN [i \in 1..Len(kept) |-> sanitizeNote(kept[i])]

\* Lines 139-147: filter, map, sort by position (Array.prototype.sort with
\* the comparator of line 147, a stable sort).
sanitizeNotes(notes) ==
  LET kept == SelectSeq(WithIds(notes), keepsNote)
  IN SortedNotes([i \in 1..Len(kept) |-> sanitizeNote(kept[i])])

SanitizerInit ==
  /\ Init
  /\ data = PieceEmpty
  /\ ~hasAudio

\* The response text is parsed: the notes of a measure arrive.
ParseMeasure ==
  /\ probe.kind = "none"
  /\ \E notes \in RawMeasures :
       probe' = [kind |-> "parsed", notes |-> notes, out |-> << >>]
  /\ PlayerFixed

\* The sanitizer runs over the measure.
SanitizeMeasure ==
  /\ probe.kind = "parsed"
  /\ probe' = [probe EXCEPT !.kind = "sanitized", !.out = sanitizeNotes(probe.notes)]
  /\ PlayerFixed

SanitizerNext ==
  \/ ParseMeasure
  \/ SanitizeMeasure

SanitizerSpec == SanitizerInit /\ [][SanitizerNext]_vars

\* The input note that a sanitized note was made from.
InputOf(o) == probe.notes[o.id]

\* ------------------------------------------------------------------- C18
\* C18: every sanitized note has an integer string in 1..6, the input string
\* rounded and then clamped, an integer position in 0..15, the input position
\* rounded and then clamped, and a textual fret that is "0" when the input
\* fret was absent; string 7.6 becomes 6, string -3 becomes 1, position 17.4
\* becomes 15.
NearestInteger(tenths, r) == 10 * r - 5 <= tenths /\ tenths < 10 * r + 5

Clamped(r, lo, hi, c) ==
  /\ c \in lo..hi
  /\ r \in lo..hi => c = r
  /\ r < lo => c = lo
  /\ r > hi => c = hi

C18_SanitizedRanges ==
  probe.kind = "sanitized" =>
    \A i \in 1..Len(probe.out) :
      LET o == probe.out[i]
          in == InputOf(o)
      IN /\ o.string \in 1..6
         /\ o.position \in 0..15
         /\ \E r \in -40..40 : NearestInteger(in.string.n, r) /\ Clamped(r, 1, 6, o.string)
         /\ in.position.t = "number" =>
              \E r \in -40..40 : NearestInteger(in.position.n, r) /\ Clamped(r, 0, 15, o.position)
         /\ o.fret \in {"0", "3", "7h"}
         /\ in.fret.t = "undefined" => o.fret = "0"
         /\ in.string.n = 76 => o.string = 6
         /\ in.string.n = -30 => o.string = 1
         /\ in.position = RawNumber(174) => o.position = 15

C18_Witness ==
  /\ probe.kind = "sanitized"
  /\ \E i, j \in 1..Len(probe.out) :
       /\ InputOf(probe.out[i]).string.n = 76
       /\ probe.out[i].string = 6
       /\ InputOf(probe.out[j]).string.n = -30
       /\ InputOf(probe.out[j]).position.n = 174
       /\ InputOf(probe.out[j]).fret.t = "undefined"
       /\ probe.out[j].fret = "0"

\* ------------------------------------------------------------------- C19
\* C19: a note is dropped exactly when it lacks a numeric string or lacks a
\* non-negative position, so a sanitized measure has as many notes as the
\* input has notes with a numeric string and a non-negative position.
HasNumericString(n) == n.isObject /\ n.string.t = "number"
HasNonNegativePosition(n) == n.isObject /\ n.position.t = "number" /\ n.position.n >= 0

C19_DropRule ==
  probe.kind = "sanitized" =>
    /\ \A i \in 1..Len(probe.notes) :
         (\E j \in 1..Len(probe.out) : probe.out[j].id = i)
           <=> (HasNumericString(probe.notes[i]) /\ HasNonNegativePosition(probe.notes[i]))
    /\ Len(probe.out) =
         Cardinality({i \in 1..Len(probe.notes) :
                        HasNumericString(probe.notes[i]) /\ HasNonNegativePosition(probe.notes[i])})

\* ------------------------------------------------------------------- C20
\* C20: the notes of a sanitized measure are in ascending order of their
\* rounded and clamped position, and notes with equal position are in the
\* order they had in the input.
C20_SanitizedOrder ==
  probe.kind = "sanitized" =>
    \A i, j \in 1..Len(probe.out) :
      i < j =>
        /\ probe.out[i].position <= probe.out[j].position
        /\ probe.out[i].position = probe.out[j].position => probe.out[i].id < probe.out[j].id

C20_Witness ==
  /\ probe.kind = "sanitized"
  /\ Len(probe.out) = 3
  /\ probe.out[1].id > probe.out[2].id
  /\ probe.out[2].position = probe.out[3].position
  /\ InputOf(probe.out[2]).position # InputOf(probe.out[3]).position

\* ------------------------------------------- the sanitizer, whole response
\* The parsed response (line 122) is any JSON value.  A property that should
\* hold a list is a value [t, items]: t is the kind of the value
\* ("undefined" for a missing property, "number" for a number other than 0)
\* and items its elements when it is an array.  A section, a measure and the
\* response itself carry their own kind in t.
Field(t, items) == [t |-> t, items |-> items]
Absent == Field("undefined", << >>)
NullField == Field("null", << >>)
NumberField == Field("number", << >>)
ArrayField(items) == Field("array", items)

\* !value for the values above.
Falsy(f) == f.t \in {"undefined", "null"}

RawMeasureValues ==
  { [t |-> "object", notes |-> Absent, chords |-> Absent],
    [t |-> "object",
     notes |-> ArrayField(<< RawNote(RawNumber(76), RawNumber(40), RawString("3")),
                             RawNullNote,
                             RawNote(RawNumber(-30), RawNumber(0), RawUndefined) >>),
     chords |-> ArrayField(<< "Am" >>)],
    [t |-> "object", notes |-> NullField, chords |-> NumberField],
    [t |-> "null", notes |-> Absent, chords |-> Absent] }

MaxMeasures == 2
MaxSections == 2

RawSectionValues ==
  { [t |-> "object", measures |-> ArrayField(ms)] :
      ms \in UNION {[1..len -> RawMeasureValues] : len \in 0..MaxMeasures} }
  \cup { [t |-> "object", measures |-> Absent],
         [t |-> "object", measures |-> NumberField],
         [t |-> "null", measures |-> Absent] }

RawResponses ==
  { [t |-> "object", sections |-> ArrayField(ss)] :
      ss \in UNION {[1..len -> RawSectionValues] : len \in 0..MaxSections} }
  \cup { [t |-> "object", sections |-> Absent],
         [t |-> "object", sections |-> NullField],
         [t |-> "object", sections |-> NumberField],
         [t |-> "null", sections |-> Absent] }

\* Reading a property of null, or calling forEach or filter on a value that
\* is not an array, throws a TypeError.
measureThrows(m) ==
  \/ m.t # "object"
  \/ ~Falsy(m.notes) /\ m.notes.t # "array"

\* Lines 134-147 for one measure.
sanitizeMeasure(m) ==
  [notes |-> IF Falsy(m.notes) THEN << >> ELSE sanitizeNotes(m.notes.items),
   chords |-> IF Falsy(m.chords) THEN ArrayField(<< >>) ELSE m.chords]

sectionThrows(s) ==
  \/ s.t # "object"
  \/ ~Falsy(s.measures) /\ s.measures.t # "array"
  \/ \E i \in 1..Len(s.measures.items) : measureThrows(s.measures.items[i])

\* Lines 132-148 for one section.
sanitizeSection(s) ==
  [measures |-> IF Falsy(s.measures) THEN << >>
                ELSE [i \in 1..Len(s.measures.items) |-> sanitizeMeasure(s.measures.items[i])]]

Failure(code) == [outcome |-> code, sections |-> << >>]

\* Lines 127-151, with the catch of lines 152-171: an error that is not a
\* TranscriptionError is rethrown with the code UNKNOWN.
sanitizeResponse(parsed) ==
  IF parsed.t = "null" THEN Failure("UNKNOWN")
  ELSE IF Falsy(parsed.sections) \/ parsed.sections.t # "array"
  THEN Failure("INVALID_STRUCTURE")
  ELSE IF \E i \in 1..Len(parsed.sections.items) : sectionThrows(parsed.sections.items[i])
  THEN Failure("UNKNOWN")
  ELSE [outcome |-> "returned",
        sections |-> [i \in 1..Len(parsed.sections.items) |->
                        sanitizeSection(parsed.sections.items[i])]]

StructureInit ==
  /\ Init
  /\ data = PieceEmpty
  /\ ~hasAudio

\* JSON.parse returns the response.
ParseResponse ==
  /\ probe.kind = "none"
  /\ \E parsed \in RawResponses :
       probe' = [kind |-> "parsedResponse", parsed |-> parsed, result |-> Failure("pending")]
  /\ PlayerFixed

\* The validation and the sanitizer run over the response.
SanitizeResponse ==
  /\ probe.kind = "parsedResponse"
  /\ probe' = [probe EXCEPT !.kind = "sanitizedResponse",
                            !.result = sanitizeResponse(probe.parsed)]
  /\ PlayerFixed

StructureNext ==
  \/ ParseResponse
  \/ SanitizeResponse

StructureSpec == StructureInit /\ [][StructureNext]_vars

\* ------------------------------------------------------------------- C21
\* C21: in every returned result sections is a sequence, every section has a
\* measures sequence, and every measure has a chords sequence and a notes
\* sequence; a measure missing both gets two empty sequences.
Returned == probe.kind = "sanitizedResponse" /\ probe.result.outcome = "returned"

C21_StructuralCompletion ==
  Returned =>
    /\ Len(probe.result.sections) = Len(probe.parsed.sections.items)
    /\ \A i \in 1..Len(probe.result.sections) :
         LET sec == probe.result.sections[i]
             rawSec == probe.parsed.sections.items[i]
         IN /\ Falsy(rawSec.measures) => sec.measures = << >>
            /\ \A k \in 1..Len(sec.measures) :
                 LET rawM == rawSec.measures.items[k]
                 IN /\ sec.measures[k].chords.t = "array"
                    /\ Len(sec.measures[k].notes) <= Len(rawM.notes.items)
                    /\ (rawM.notes = Absent /\ rawM.chords = Absent) =>
                         sec.measures[k] = [notes |-> << >>, chords |-> ArrayField(<< >>)]

\* ------------------------------------------------------------------- C22
\* C22: sanitization fails with INVALID_STRUCTURE exactly when sections is
\* missing or not a sequence, and returns a result for every other parsed
\* input, malformed sections, measures or notes included.
SectionsUsable(parsed) == parsed.t = "object" /\ parsed.sections.t = "array"

C22_FailurePolicy ==
  probe.kind = "sanitizedResponse" =>
    /\ ~SectionsUsable(probe.parsed) <=> probe.result.outcome = "INVALID_STRUCTURE"
    /\ SectionsUsable(probe.parsed) <=> probe.result.outcome = "returned"

\* ------------------------------------------------------------ the App
\* Responses the transcription service can come back with: a usable one, one
\* without sections, one with a null measure.
GoodResponse ==
  [t |-> "object",
   sections |-> ArrayField(<< [t |-> "object",
                               measures |-> ArrayField(<<
                                 [t |-> "object",
                                  notes |-> ArrayField(<< RawNote(RawNumber(76), RawNumber(40), RawString("3")),
                                                          RawNullNote,
                                                          RawNote(RawNumber(-30), RawNumber(0), RawUndefined) >>),
                                  chords |-> ArrayField(<< "Am" >>)] >>)] >>)]

NoSectionsResponse == [t |-> "object", sections |-> Absent]

NullMeasureResponse ==
  [t |-> "object",
   sections |-> ArrayField(<< [t |-> "object",
                               measures |-> ArrayField(<<
                                 [t |-> "null", notes |-> Absent, chords |-> Absent] >>)] >>)]

AppResponses == {GoodResponse, NoSectionsResponse, NullMeasureResponse}

\* Failures of the call before there is a response to parse (lines 108-115,
\* 155-164, and a rejected convertBlobToBase64).
ServiceFailures == {"EMPTY_RESPONSE", "NETWORK"}

\* Calls of processAudio in one behaviour.
MaxRequests == 2

RendererFixed ==
  UNCHANGED << data, hasAudio, mounted, metronomeEnabled,
               isPlayingOriginal, isPlayingSynth,
               activeSectionIdx, activeMeasureIdx, activePosIdx,
               synthContextRef, synthOscillators, synthTimeoutRefs,
               animationFrameRef, synthStartTimeRef,
               audioPaused, audioPos, playPending, abortQueue,
               oscLive, frames, now, openContexts, trace, lastCmd, pre, probe >>

Did(a, op, outcome) ==
  [a EXCEPT !.last = [op |-> op, outcome |-> outcome, prevResult |-> app.result,
                      prevState |-> app.state]]

\* processAudio up to its first await (lines 106-110): the call is under way.
processAudio(a) ==
  [a EXCEPT !.state = "PROCESSING",
            !.errorDetails = "null",
            !.requests = @ \cup {[id |-> a.calls + 1]},
            !.calls = @ + 1]

\* handleFileUpload (lines 90-103); the file input is shown in IDLE only.
HandleFileUpload ==
  /\ app.state = "IDLE"
  /\ \/ app' = Did([app EXCEPT !.errorDetails = "SIZE", !.state = "ERROR"],
                   "handleFileUpload", "SIZE")
     \/ /\ app.calls < MaxRequests
        /\ app' = Did(processAudio([app EXCEPT !.audioUrl = app.calls + 1]),
                      "handleFileUpload", "processing")
  /\ RendererFixed

\* startRecording up to its await (lines 48-51); the button is shown in IDLE.
StartRecording ==
  /\ app.state = "IDLE"
  /\ ~app.micPending
  /\ app' = Did([app EXCEPT !.errorDetails = "null", !.micPending = TRUE],
                "startRecording", "pending")
  /\ RendererFixed

\* getUserMedia resolves: the rest of the try block (lines 52-78).
MicGranted ==
  /\ app.micPending
  /\ app' = Did([app EXCEPT !.micPending = FALSE, !.recorder = "recording",
                            !.state = "RECORDING"],
                "startRecording", "recording")
  /\ RendererFixed

\* getUserMedia rejects: the catch block (lines 79-82).
MicDenied ==
  /\ app.micPending
  /\ app' = Did([app EXCEPT !.micPending = FALSE, !.errorDetails = "AUTH",
                            !.state = "ERROR"],
                "startRecording", "AUTH")
  /\ RendererFixed

\* stopRecording (lines 85-89); the button is shown in RECORDING.
StopRecording ==
  /\ app.state = "RECORDING"
  /\ app' = Did(IF app.recorder = "recording"
                THEN [app EXCEPT !.recorder = "stopping"] ELSE app,
                "stopRecording", "none")
  /\ RendererFixed

\* recorder.onstop (lines 63-75).
RecorderStopped ==
  /\ app.recorder = "stopping"
  /\ \/ app' = Did([app EXCEPT !.recorder = "inactive", !.errorDetails = "SHORT",
                               !.state = "ERROR"],
                   "onstop", "SHORT")
     \/ /\ app.calls < MaxRequests
        /\ app' = Did(processAudio([app EXCEPT !.recorder = "inactive",
                                               !.audioUrl = app.calls + 1]),
                      "onstop", "processing")
  /\ RendererFixed

\* TranscriptionSettles storing the parsed response whatever the outcome.
TranscriptionSettles_StoresUnvalidated ==
  /\ \E req \in app.requests :
       \/ \E parsed \in AppResponses :
            LET r == sanitizeResponse(parsed)
            IN app' = Did([app EXCEPT !.requests = @ \ {req},
                                      !.result = [present |-> TRUE, raw |-> parsed,
                                                  sections |-> r.sections],
                                      !.state = "RESULT"],
                          "processAudio", r.outcome)
       \/ \E code \in ServiceFailures :
            app' = Did([app EXCEPT !.requests = @ \ {req},
                                   !.errorDetails = code,
                                   !.state = "ERROR"],
                       "processAudio", code)
  /\ RendererFixed

\* A call of generateGuitarTabFromAudio settles and processAudio resumes:
\* lines 112-113 when it returns, the catch of lines 114-120 when it throws.
TranscriptionSettles ==
  /\ \E req \in app.requests :
       \/ \E parsed \in AppResponses :
            LET r == sanitizeResponse(parsed)
            IN app' = Did(IF r.outcome = "returned"
                          THEN [app EXCEPT !.requests = @ \ {req},
                                           !.result = [present |-> TRUE, raw |-> parsed,
                                                       sections |-> r.sections],
                                           !.state = "RESULT"]
                          ELSE [app EXCEPT !.requests = @ \ {req},
                                           !.errorDetails = r.outcome,
                                           !.state = "ERROR"],
                          "processAudio", r.outcome)
       \/ \E code \in ServiceFailures :
            app' = Did([app EXCEPT !.requests = @ \ {req},
                                   !.errorDetails = code,
                                   !.state = "ERROR"],
                       "processAudio", code)
  /\ RendererFixed

\* resetApp (lines 124-130); its buttons are shown outside IDLE.
ResetApp ==
  /\ app.state # "IDLE"
  /\ app' = Did([app EXCEPT !.audioUrl = 0, !.state = "IDLE", !.result = NoResult,
                            !.errorDetails = "null"],
                "resetApp", "none")
  /\ RendererFixed

AppInit ==
  /\ Init
  /\ data = PieceEmpty
  /\ ~hasAudio

AppNext ==
  \/ HandleFileUpload
  \/ StartRecording
  \/ MicGranted
  \/ MicDenied
  \/ StopRecording
  \/ RecorderStopped
  \/ TranscriptionSettles
  \/ ResetApp

AppSpec == AppInit /\ [][AppNext]_vars

\* TabRenderer is rendered (line 281).
RendererShown == app.state = "RESULT" /\ app.result.present

\* ------------------------------------------------------------------- C23
\* C23: when a call of generateGuitarTabFromAudio fails the app goes to ERROR
\* and that call stores no result; whenever TabRenderer is shown, the result
\* it is given is what validation and sanitization returned for a response
\* that passed them.
C23_OnlyValidatedReachesRenderer ==
  /\ (app.last.op = "processAudio" /\ app.last.outcome # "returned") =>
       /\ app.state = "ERROR"
       /\ app.result = app.last.prevResult
  /\ RendererShown =>
       /\ sanitizeResponse(app.result.raw).outcome = "returned"
       /\ app.result.sections = sanitizeResponse(app.result.raw).sections

C23_Witness ==
  /\ app.last.op = "processAudio"
  /\ app.last.outcome = "INVALID_STRUCTURE"
  /\ app.state = "ERROR"
  /\ ~app.result.present
  /\ app.calls = 2

\* ------------------------------------------------------------ time grid
\* data.tempo || 120 (lines 119 and 175); tempo 0 stands for an absent tempo
\* as well as for the number 0, both falsy.
TempoOr(rawTempo) == IF rawTempo = 0 THEN DefaultTempo ELSE rawTempo

\* The grid of playSynth (lines 175-178).
schedulerGrid(rawTempo) ==
  LET tempo == TempoOr(rawTempo)
      secondsPerMeasure == FTimes(FDiv(FInt(60), FInt(tempo)), 4)
      secondsPerPosition == FDiv(secondsPerMeasure, FInt(16))
      secondsPerBeat == FDiv(FInt(60), FInt(tempo))
  IN [secondsPerBeat |-> secondsPerBeat,
      secondsPerMeasure |-> secondsPerMeasure,
      secondsPerPosition |-> secondsPerPosition]

\* pollGrid with three beats to the measure.
pollGrid_ThreeBeats(rawTempo) ==
  LET tempo == TempoOr(rawTempo)
      secondsPerMeasure == FTimes(FDiv(FInt(60), FInt(tempo)), 3)
      secondsPerPosition == FDiv(secondsPerMeasure, FInt(16))
  IN [secondsPerMeasure |-> secondsPerMeasure,
      secondsPerPosition |-> secondsPerPosition]

\* The grid of updatePlaybackProgress (lines 119-121).
pollGrid(rawTempo) ==
  LET tempo == TempoOr(rawTempo)
      secondsPerMeasure == FTimes(FDiv(FInt(60), FInt(tempo)), 4)
      secondsPerPosition == FDiv(secondsPerMeasure, FInt(16))
  IN [secondsPerMeasure |-> secondsPerMeasure,
      secondsPerPosition |-> secondsPerPosition]

\* Values of data.tempo: negative, absent or 0, positive.
GridTempos == (0 - DefaultTempo)..DefaultTempo

NoGrid == [secondsPerBeat |-> 0, secondsPerMeasure |-> 0, secondsPerPosition |-> 0]
NoPollGrid == [secondsPerMeasure |-> 0, secondsPerPosition |-> 0]

GridInit ==
  /\ Init
  /\ data = PieceEmpty
  /\ ~hasAudio

\* A transcription with some tempo is given to the renderer.
ReceiveTempo ==
  /\ probe.kind = "none"
  /\ \E rawTempo \in GridTempos :
       probe' = [kind |-> "grid", tempo |-> rawTempo,
                 scheduled |-> FALSE, polled |-> FALSE,
                 scheduler |-> NoGrid, poll |-> NoPollGrid]
  /\ PlayerFixed

\* playSynth computes its grid.
ComputeSchedulerGrid ==
  /\ probe.kind = "grid"
  /\ ~probe.scheduled
  /\ probe' = [probe EXCEPT !.scheduled = TRUE, !.scheduler = schedulerGrid(probe.tempo)]
  /\ PlayerFixed

\* updatePlaybackProgress computes its grid.
ComputePollGrid ==
  /\ probe.kind = "grid"
  /\ ~probe.polled
  /\ probe' = [probe EXCEPT !.polled = TRUE, !.poll = pollGrid(probe.tempo)]
  /\ PlayerFixed

GridNext ==
  \/ ReceiveTempo
  \/ ComputeSchedulerGrid
  \/ ComputePollGrid

GridSpec == GridInit /\ [][GridNext]_vars

GridsComputed == probe.kind = "grid" /\ probe.scheduled /\ probe.polled

Magnitude(x) == IF x >= 0 THEN x ELSE 0 - x

\* ------------------------------------------------------------------- C24
\* C24: for every tempo greater than 0 the scheduler and the polling step
\* use the same grid, with secondsPerBeat = 60/tempo (to within the rounding
\* of one division), secondsPerMeasure = 4*secondsPerBeat and
\* 16*secondsPerPosition = secondsPerMeasure.
C24_GridIdentities ==
  (GridsComputed /\ probe.tempo > 0) =>
    /\ probe.poll.secondsPerMeasure = probe.scheduler.secondsPerMeasure
    /\ probe.poll.secondsPerPosition = probe.scheduler.secondsPerPosition
    /\ Magnitude(probe.scheduler.secondsPerBeat * probe.tempo - 60 * FScale)
         * Pow2(SignificandBits) <= 60 * FScale
    /\ probe.scheduler.secondsPerMeasure = 4 * probe.scheduler.secondsPerBeat
    /\ 16 * probe.scheduler.secondsPerPosition = probe.scheduler.secondsPerMeasure

C24_Witness ==
  /\ GridsComputed
  /\ probe.tempo = 7
  /\ probe.scheduler.secondsPerBeat * probe.tempo # 60 * FScale
  /\ probe.poll.secondsPerPosition > 2 * FScale

\* ------------------------------------------------------------------- C25
\* C25: for a tempo that is absent, zero or negative the scheduler and the
\* polling step use the grid of tempo 120: secondsPerBeat 0.5,
\* secondsPerMeasure 2, secondsPerPosition 0.125.
C25_TempoDefault ==
  (GridsComputed /\ probe.tempo <= 0) =>
    /\ 2 * probe.scheduler.secondsPerBeat = FScale
    /\ probe.scheduler.secondsPerMeasure = 2 * FScale
    /\ 8 * probe.scheduler.secondsPerPosition = FScale
    /\ probe.poll.secondsPerMeasure = 2 * FScale
    /\ 8 * probe.poll.secondsPerPosition = FScale


\* ---------------------------------------------------------- note frequency
\* The frequency playSynth gives a note (lines 179 and 213-225), for every
\* tuning name, string and fret text.  A frequency is the open-string
\* frequency in hundredths of a hertz and the number of semitones above it:
\* open * 2^(semitones / 12).
TuningNames ==
  DOMAIN TUNING_FREQS \cup {"", "Open C", "constructor"}

FretTexts == {"0", "3", "12", "7h", "x"}

Strings == 1..6

\* Math.pow(2, fretNum / 12) is exactly 2^k when fretNum = 12 * k; the
\* frequency is then the open frequency times 2^k.
Octaves(semitones) == semitones \div 12

\* Lines 213-225 for one note: skipped when the fret does not parse; the
\* product with an undefined base frequency is NaN, which setValueAtTime
\* rejects with a TypeError.
noteFrequency(tuning, string, fret) ==
  LET fretNum == ParseInt(fret)
      stringIdx == 6 - string
      baseFreq == BaseFreq(tuningTable(tuning), stringIdx)
  IN IF fretNum = NaN THEN [outcome |-> "skipped", open |-> 0, semitones |-> 0]
     ELSE IF baseFreq = NaN THEN [outcome |-> "throws", open |-> NaN, semitones |-> fretNum]
     ELSE [outcome |-> "scheduled", open |-> baseFreq, semitones |-> fretNum]

FrequencyInit ==
  /\ Init
  /\ data = PieceEmpty
  /\ ~hasAudio

\* A note of a transcription in some tuning reaches the note loop.
ReceiveNote ==
  /\ probe.kind = "none"
  /\ \E tuning \in TuningNames, string \in Strings, fret \in FretTexts :
       probe' = [kind |-> "frequency", tuning |-> tuning, string |-> string,
                 fret |-> fret, done |-> FALSE,
                 out |-> [outcome |-> "none", open |-> 0, semitones |-> 0]]
  /\ PlayerFixed

\* The loop body computes the note's frequency.
ComputeFrequency ==
  /\ probe.kind = "frequency"
  /\ ~probe.done
  /\ probe' = [probe EXCEPT !.done = TRUE,
                            !.out = noteFrequency(probe.tuning, probe.string, probe.fret)]
  /\ PlayerFixed

FrequencyNext == ReceiveNote \/ ComputeFrequency

FrequencySpec == FrequencyInit /\ [][FrequencyNext]_vars

\* The table the claim names: the tuning's own table, E Standard when the
\* name is absent or is not the name of a tuning.
ClaimedTable(tuning) ==
  IF tuning \in DOMAIN TUNING_FREQS THEN TUNING_FREQS[tuning]
  ELSE TUNING_FREQS["E Standard"]

\* C26: every note with a string in 1..6 and a fret that parses to f is
\* given the frequency open * 2^(f/12), open being entry 6 - string of the
\* tuning's low-to-high table, or of E Standard's when the tuning name is
\* absent or unrecognized; string 1 has the highest and string 6 the lowest
\* open frequency, and E Standard string 1 fret 12 is exactly twice the open
\* frequency of the high string.
C26_FrequencyMapping ==
  (probe.kind = "frequency" /\ probe.done /\ ParseInt(probe.fret) # NaN) =>
    LET table == ClaimedTable(probe.tuning)
    IN /\ probe.out.outcome = "scheduled"
       /\ probe.out.open = table[(6 - probe.string) + 1]
       /\ probe.out.semitones = ParseInt(probe.fret)
       /\ \A i \in DOMAIN table : table[1] <= table[i] /\ table[i] <= table[6]
       /\ probe.string = 1 => probe.out.open = table[6]
       /\ probe.string = 6 => probe.out.open = table[1]
       /\ (probe.tuning = "E Standard" /\ probe.string = 1 /\ probe.fret = "12") =>
            /\ probe.out.open = 32963
            /\ Octaves(probe.out.semitones) = 1
            /\ probe.out.semitones % 12 = 0

\* The same statement for the tunings that are not names of inherited members.
FrequencyMappingOwnOrUnknown ==
  (probe.kind = "frequency" /\ probe.tuning \notin ObjectPrototypeKeys) => C26_FrequencyMapping

\* ------------------------------------------------------- flattened measures
\* flatMeasures (lines 39-48) for every shape of sanitized sections: up to
\* MaxSections sections of up to MaxMeasures measures, a measure being its
\* notes.
FlatMeasureValues == {<< >>, << Note(1, "0", 0) >>}

FlatSectionValues ==
  UNION {[1..n -> FlatMeasureValues] : n \in 0..MaxMeasures}

FlatSections ==
  UNION {[1..n -> FlatSectionValues] : n \in 0..MaxSections}

FlatInit ==
  /\ Init
  /\ data = PieceEmpty
  /\ ~hasAudio

\* The renderer is given the sections of a transcription.
ReceiveSections ==
  /\ probe.kind = "none"
  /\ \E sections \in FlatSections :
       probe' = [kind |-> "flat", sections |-> sections, done |-> FALSE, out |-> << >>]
  /\ PlayerFixed

\* The memo computes flatMeasures.
ComputeFlatMeasures ==
  /\ probe.kind = "flat"
  /\ ~probe.done
  /\ probe' = [probe EXCEPT !.done = TRUE, !.out = flatMeasuresOf(probe.sections)]
  /\ PlayerFixed

FlatNext == ReceiveSections \/ ComputeFlatMeasures

FlatSpec == FlatInit /\ [][FlatNext]_vars

RECURSIVE TotalMeasures(_)
TotalMeasures(secs) ==
  IF secs = << >> THEN 0 ELSE Len(Head(secs)) + TotalMeasures(Tail(secs))

\* Document order of two (section, measure) places.
Before(a, b) ==
  \/ a.sectionIdx < b.sectionIdx
  \/ a.sectionIdx = b.sectionIdx /\ a.measureIdx < b.measureIdx

\* C27: flatMeasures lists every (section, measure) pair exactly once, in
\* document order; its length is the number of measures of all sections, a
\* section without measures adding nothing; entry i has absoluteIdx = i, and
\* its sectionIdx and measureIdx are the place of that very measure.
C27_FlatMeasures ==
  (probe.kind = "flat" /\ probe.done) =>
    LET fm == probe.out
        secs == probe.sections
    IN /\ Len(fm) = TotalMeasures(secs)
       /\ \A sIdx \in DOMAIN secs : \A mIdx \in DOMAIN secs[sIdx] :
            Cardinality({i \in DOMAIN fm : /\ fm[i].sectionIdx = sIdx - 1
                                           /\ fm[i].measureIdx = mIdx - 1}) = 1
       /\ \A i \in DOMAIN fm :
            /\ fm[i].absoluteIdx = i - 1
            /\ fm[i].sectionIdx + 1 \in DOMAIN secs
            /\ fm[i].measureIdx + 1 \in DOMAIN secs[fm[i].sectionIdx + 1]
            /\ fm[i].notes = secs[fm[i].sectionIdx + 1][fm[i].measureIdx + 1]
       /\ \A i, j \in DOMAIN fm : i < j => Before(fm[i], fm[j])

\* A section without measures, then a section with two different measures.
C27_Witness ==
  /\ probe.kind = "flat"
  /\ probe.done
  /\ probe.sections = << << >>, << << >>, << Note(1, "0", 0) >> >> >>
  /\ Len(probe.out) = 2
  /\ probe.out[2].absoluteIdx = 1
  /\ probe.out[2].sectionIdx = 1
  /\ probe.out[2].measureIdx = 1

\* ------------------------------------------------------------------- C28
\* The handles one scheduling pass enqueues: one per parseable note, and four
\* clicks per measure when the metronome was on during the pass.
SessionNotes == Len(Parseable(Flatten(Measures)))
SessionClicks == BeatsPerMeasure * Len(Measures)

\* C28: between handlers, when isPlayingSynth is false the list of scheduled
\* sounds and the list of timers are empty; so every scheduling pass of
\* playSynth starts from an empty list, and the list holds the handles of the
\* current session only: numbered from 1, one per parseable note, and no
\* clicks or the four clicks of every measure.
C28_NoOrphanedHandles ==
  /\ ~isPlayingSynth => synthOscillators = << >> /\ synthTimeoutRefs = << >>
  /\ Scheduled => pre.synthOscillators = << >> /\ pre.synthTimeoutRefs = << >>
  /\ isPlayingSynth =>
       /\ \A i \in DOMAIN synthOscillators : synthOscillators[i].id = i
       /\ Len(NoteHandles) = SessionNotes
       /\ Len(ClickHandles) \in {0, SessionClicks}

\* A session that had handles has just been stopped.
C28_Witness ==
  /\ lastCmd = "playSynth"
  /\ pre.isPlayingSynth
  /\ Len(pre.synthOscillators) > SessionNotes
  /\ ~isPlayingSynth
  /\ synthOscillators = << >>

Quiescent ==
  /\ playPending = 0
  /\ abortQueue = 0
  /\ ~(hasAudio /\ ~audioPaused /\ audioPos = AudioLen)

\* The original audio element is playing.
OriginalPlaying == hasAudio /\ ~audioPaused /\ audioPos < AudioLen

\* C30: under every interleaving of toggleOriginalPlayback, stopAllPlayback,
\* the 'ended' and 'error' callbacks and late rejections of earlier play()
\* calls, in a quiescent state isPlayingOriginal is true if and only if the
\* original audio element is playing.
C30_FlagMatchesAudio ==
  (mounted /\ Quiescent) => (isPlayingOriginal <=> OriginalPlaying)

\* ------------------------------------------------------------------- C31
\* C31: after any sequence of synth starts, stops and natural completions at
\* most one audio context created by playSynth is open, and the teardown of a
\* session (explicit stop, completion, switch to the original recording)
\* releases the context the session created: no context is open while no
\* session is playing.
C31_ContextLifecycle ==
  /\ openContexts <= 1
  /\ ~isPlayingSynth => openContexts = 0

\* ------------------------------------------------------------------- C32
\* C32: when the renderer is unmounted, in any playback state, every
\* scheduled synth handle is stopped, the pending frame callback is cancelled
\* and the original audio is paused; while it is unmounted no oscillator and
\* no audio element sounds and no polling callback is pending.
C32_UnmountTeardown ==
  /\ lastCmd = "unmount" =>
       /\ \A i \in DOMAIN pre.synthOscillators : pre.synthOscillators[i] \notin oscLive
       /\ \A f \in pre.frames : f \notin frames
       /\ hasAudio => audioPaused
  /\ ~mounted =>
       /\ oscLive = {}
       /\ frames = {}
       /\ hasAudio => audioPaused /\ playPending = 0
       /\ ~isPlayingSynth /\ ~isPlayingOriginal

\* Unmounted during a synth session with scheduled handles and a pending
\* frame callback.
C32_Witness ==
  /\ lastCmd = "unmount"
  /\ ~mounted
  /\ pre.isPlayingSynth
  /\ pre.synthOscillators # << >>
  /\ pre.frames # {}

\* Unmounted while the original recording was playing.
UnmountedWhileOriginalPlayed ==
  /\ lastCmd = "unmount"
  /\ ~mounted
  /\ pre.isPlayingOriginal
  /\ ~pre.audioPaused
  /\ pre.playPending = 0

\* ------------------------------------------------------------------- C33
\* C33: after resetApp the app is in IDLE with result null and audioUrl
\* null, and it stays so until the user starts a recording or an upload: a
\* transcription request that was in flight when resetApp ran does not move
\* the app to RESULT or ERROR nor store its result, so the continuation of
\* processAudio never acts on an app that is in IDLE.
C33_ResetIsFinal ==
  /\ app.last.op = "resetApp" =>
       /\ app.state = "IDLE"
       /\ ~app.result.present
       /\ app.audioUrl = 0
  /\ app.last.op = "processAudio" => app.last.prevState # "IDLE"
====
